---- MODULE Spec2Model ----
(***************************************************************************)
(* Model of src/app.py: a Flask form handler that resolves two city names  *)
(* through three AccuWeather endpoints each (city search, current          *)
(* conditions, one-hour forecast), builds one weather record per city and  *)
(* flags bad weather by fixed thresholds.                                  *)
(*                                                                         *)
(* Python values are encoded as follows.                                   *)
(*   None            the empty sequence <<>>                               *)
(*   a value v       the one-element sequence <<v>>  (Some(v))             *)
(*   str (city name) a sequence of one-character strings                   *)
(*   dict            a function whose DOMAIN is the set of keys present    *)
(*   JSON body       [type |-> "array", items |-> seq of dicts] or         *)
(*                   [type |-> "object", members |-> dict]                 *)
(* The user-visible messages are Russian literals in the source; they are  *)
(* written here as ASCII renderings of the same sentences.                 *)
(***************************************************************************)
EXTENDS Integers, Sequences, FiniteSets, TLC

VARIABLES
    pc,               \* where the handler is: "idle", blocked in "search" /
                      \* "currentconditions" / "hourly", "done"; "eval" and
                      \* "evaluated" for the stand-alone evaluator runs
    who,              \* which get_weather call is running: "start" or "end"
    jsonErrorIsRequestException,
                      \* whether the installed requests raises its own
                      \* JSONDecodeError (a RequestException) from .json()
    form,             \* request.form of the request being handled
    start_city, end_city,
    location_key, current_weather,        \* locals of the running get_weather
    start_weather, start_error, end_weather, end_error,
    calls,            \* outbound calls issued by this request, in order
    evaluated,        \* check_bad_weather invocations of this request, in order
    response,         \* what the request rendered
    weather, conditions   \* argument and result of a stand-alone check_bad_weather

vars == <<pc, who, jsonErrorIsRequestException, form, start_city, end_city,
          location_key, current_weather, start_weather, start_error,
          end_weather, end_error, calls, evaluated, response,
          weather, conditions>>

-----------------------------------------------------------------------------
(* Bounds *)

MaxNameLen == 2       \* longest raw form value
EvalMargin == 5       \* the evaluator is run this far around each threshold

-----------------------------------------------------------------------------
(* Python value encoding *)

None == <<>>
Some(v) == <<v>>
Return(v) == [tag |-> "return", value |-> v]
Raise(e) == [tag |-> "raise", exc |-> e]

Arr(items) == [type |-> "array", items |-> items]
Obj(members) == [type |-> "object", members |-> members]

\* bool(data) of a decoded JSON body: an empty list or dict is falsy
Truthy(data) ==
    IF data.type = "array" THEN data.items # <<>>
    ELSE DOMAIN data.members # {}

\* data[0]: the first item of a list; on a dict the key 0 is never present
\* (JSON object keys are strings)
Subscript0(data) ==
    IF data.type = "array" THEN Return(data.items[1]) ELSE Raise("KeyError")

\* d[k] on a dict
Subscript(d, k) ==
    IF k \in DOMAIN d THEN Return(d[k]) ELSE Raise("KeyError")

-----------------------------------------------------------------------------
(* str.strip() *)

Whitespace == {" "}

RECURSIVE lstrip(_)
lstrip(s) ==
    IF s # <<>> /\ Head(s) \in Whitespace THEN lstrip(Tail(s)) ELSE s

RECURSIVE rstrip(_)
rstrip(s) ==
    IF s # <<>> /\ s[Len(s)] \in Whitespace
    THEN rstrip(SubSeq(s, 1, Len(s) - 1)) ELSE s

\* the form value used as typed
strip_omitted(s) == s

strip(s) == rstrip(lstrip(s))

-----------------------------------------------------------------------------
(* The provider's possible answers *)

Alphabet == {" ", "a"}
Strings == UNION {[1..n -> Alphabet] : n \in 0..MaxNameLen}
FormFields == {"start_city", "end_city"}
NoForm == [f \in {} |-> <<>>]
Forms == UNION {[present -> Strings] : present \in SUBSET FormFields}

\* what requests.get(...).json() can come to
Failures == {[outcome |-> "transport"], [outcome |-> "status"],
             [outcome |-> "badjson"]}
Json(data) == [outcome |-> "json", data |-> data]

SearchResponses ==
    Failures \cup
    {Json(Arr(<<>>)),
     Json(Obj([Code |-> "Unauthorized"])),
     Json(Arr(<<[LocalizedName |-> "x"]>>)),
     Json(Arr(<<[Key |-> ""]>>)),
     Json(Arr(<<[Key |-> "k1"]>>)),
     Json(Arr(<<[Key |-> "k1"], [Key |-> "k2"]>>))}

ConditionFields ==
    {"Temperature", "RelativeHumidity", "Wind", "HasPrecipitation", "WeatherText"}
Temperatures == {20, 40}
WindSpeeds == {10, 60}

CurrentConditions(t, w, missing) ==
    [k \in ConditionFields \ missing |->
        CASE k = "Temperature" -> [Metric |-> [Value |-> t]]
          [] k = "RelativeHumidity" -> 55
          [] k = "Wind" -> [Speed |-> [Metric |-> [Value |-> w]]]
          [] k = "HasPrecipitation" -> FALSE
          [] k = "WeatherText" -> "Clear"]

ConditionsResponses ==
    Failures \cup
    {Json(Arr(<<>>)), Json(Obj([Code |-> "Unauthorized"]))} \cup
    {Json(Arr(<<CurrentConditions(t, w, {})>>)) :
        t \in Temperatures, w \in WindSpeeds} \cup
    {Json(Arr(<<CurrentConditions(20, 10, {f})>>)) : f \in ConditionFields} \cup
    {Json(Arr(<<CurrentConditions(20, 10, ConditionFields)>>))}

\* PrecipitationProbability is the one field modelled as nullable:
\* its value is None (JSON null) or Some(n)
Probabilities == {0, 80}
ForecastResponses ==
    Failures \cup
    {Json(Arr(<<>>)), Json(Obj([Code |-> "Unauthorized"])),
     Json(Arr(<<[DateTime |-> "t"]>>)),
     Json(Arr(<<[PrecipitationProbability |-> None]>>))} \cup
    {Json(Arr(<<[PrecipitationProbability |-> Some(p)]>>)) : p \in Probabilities}

-----------------------------------------------------------------------------
(* The three fetch functions *)

\* requests.get; raise_for_status; response.json() inside the try block:
\* the decoded body, a caught RequestException, or an exception of another
\* class, which the except clause does not catch
request_json(resp) ==
    CASE resp.outcome \in {"transport", "status"} -> [tag |-> "RequestException"]
      [] resp.outcome = "badjson" ->
            IF jsonErrorIsRequestException
            THEN [tag |-> "RequestException"]
            ELSE Raise("ValueError")
      [] resp.outcome = "json" -> [tag |-> "data", data |-> resp.data]

\* data[0][key], as both get_location_key and get_precipitation_probability do
FirstItemField(data, key) ==
    LET first == Subscript0(data) IN
    IF first.tag = "raise" THEN first ELSE Subscript(first.value, key)

get_location_key(resp) ==
    LET r == request_json(resp) IN
    CASE r.tag = "RequestException" -> Return(None)
      [] r.tag = "raise" -> r
      [] r.tag = "data" ->
            IF Truthy(r.data)
            THEN LET key == FirstItemField(r.data, "Key") IN
                 IF key.tag = "raise" THEN key ELSE Return(Some(key.value))
            ELSE Return(None)

get_current_weather(resp) ==
    LET r == request_json(resp) IN
    CASE r.tag = "RequestException" -> Return(None)
      [] r.tag = "raise" -> r
      [] r.tag = "data" ->
            IF Truthy(r.data)
            THEN LET first == Subscript0(r.data) IN
                 IF first.tag = "raise" THEN first ELSE Return(Some(first.value))
            ELSE Return(None)

get_precipitation_probability(resp) ==
    LET r == request_json(resp) IN
    CASE r.tag = "RequestException" -> Return(None)
      [] r.tag = "raise" -> r
      [] r.tag = "data" ->
            IF Truthy(r.data)
            THEN FirstItemField(r.data, "PrecipitationProbability")
            ELSE Return(None)

-----------------------------------------------------------------------------
(* get_weather *)

CITY_NOT_FOUND == "Could not find the city. Check the spelling."
WEATHER_UNAVAILABLE == "Could not get the current weather. Try again later."
CITY_NOT_ENTERED == "You did not enter a city name."

\* the check after the search call left out
NoLocationKey_unchecked(key) == FALSE

\* `not location_key`: None and the empty string are falsy
NoLocationKey(key) == key = None \/ key[1] = ""

\* `not current_weather`: None and the empty dict are falsy
NoCurrentWeather(cw) == cw = None \/ DOMAIN cw[1] = {}

\* lines 105-108: only None is replaced, by 0
precipitation_or_default(p) == IF p = None THEN 0 ELSE p[1]

\* d[k1][k2]...: the value at a path of keys, or the KeyError of the first
\* key that is absent
RECURSIVE Path(_, _)
Path(d, keys) ==
    IF keys = <<>> THEN Return(d)
    ELSE LET r == Subscript(d, Head(keys)) IN
         IF r.tag = "raise" THEN r ELSE Path(r.value, Tail(keys))

\* lines 111-120: the dict literal reads the five fields of current_weather
build_weather(city, cw, precipitation_probability) ==
    LET temperature == Path(cw, <<"Temperature", "Metric", "Value">>)
        humidity == Path(cw, <<"RelativeHumidity">>)
        wind_speed == Path(cw, <<"Wind", "Speed", "Metric", "Value">>)
        has_precipitation == Path(cw, <<"HasPrecipitation">>)
        weather_text == Path(cw, <<"WeatherText">>)
    IN  CASE temperature.tag = "raise" -> temperature
          [] humidity.tag = "raise" -> humidity
          [] wind_speed.tag = "raise" -> wind_speed
          [] has_precipitation.tag = "raise" -> has_precipitation
          [] weather_text.tag = "raise" -> weather_text
          [] OTHER ->
             Return(<<Some([city |-> city,
                            temperature |-> temperature.value,
                            humidity |-> humidity.value,
                            wind_speed |-> wind_speed.value,
                            has_precipitation |-> has_precipitation.value,
                            precipitation_probability |-> precipitation_probability,
                            weather_text |-> weather_text.value]),
                      None>>)

-----------------------------------------------------------------------------
(* check_bad_weather *)

Violation(label, value, unit) == <<label, value, unit>>

\* the lower temperature bound taken inclusively
check_bad_weather_inclusive(w) ==
    LET temp == w.temperature
        wind == w.wind_speed
        precip_prob == w.precipitation_probability
        c1 == IF temp <= 0 \/ temp > 35
              THEN <<Violation("temperature: ", temp, "C")>> ELSE <<>>
        c2 == IF wind > 50
              THEN c1 \o <<Violation("wind speed: ", wind, " km/h")>> ELSE c1
        c3 == IF precip_prob > 70
              THEN c2 \o <<Violation("precipitation probability: ", precip_prob, "%")>>
              ELSE c2
    IN  IF c3 # <<>> THEN Some(c3) ELSE None

\* the wind check placed before the temperature check
check_bad_weather_wind_first(w) ==
    LET temp == w.temperature
        wind == w.wind_speed
        precip_prob == w.precipitation_probability
        c1 == IF wind > 50
              THEN <<Violation("wind speed: ", wind, " km/h")>> ELSE <<>>
        c2 == IF temp < 0 \/ temp > 35
              THEN c1 \o <<Violation("temperature: ", temp, "C")>> ELSE c1
        c3 == IF precip_prob > 70
              THEN c2 \o <<Violation("precipitation probability: ", precip_prob, "%")>>
              ELSE c2
    IN  IF c3 # <<>> THEN Some(c3) ELSE None

check_bad_weather(w) ==
    LET temp == w.temperature
        wind == w.wind_speed
        precip_prob == w.precipitation_probability
        c1 == IF temp < 0 \/ temp > 35
              THEN <<Violation("temperature: ", temp, "C")>> ELSE <<>>
        c2 == IF wind > 50
              THEN c1 \o <<Violation("wind speed: ", wind, " km/h")>> ELSE c1
        c3 == IF precip_prob > 70
              THEN c2 \o <<Violation("precipitation probability: ", precip_prob, "%")>>
              ELSE c2
    IN  IF c3 # <<>> THEN Some(c3) ELSE None

-----------------------------------------------------------------------------
(* check_weather_route *)

NoResponse == [template |-> "none"]
ErrorView(message) == [template |-> "error.html", error_message |-> message]
ResultView(sw, ew, sc, ec) ==
    [template |-> "result.html", start_weather |-> sw, end_weather |-> ew,
     start_conditions |-> sc, end_conditions |-> ec]
Unhandled(exc) == [template |-> "exception", exc |-> exc]

\* request.form.get(field, '')
FormGet(f, field, default) ==
    IF field \in DOMAIN f THEN f[field] ELSE default

\* lines 164-179, once both get_weather calls have returned
check_weather_respond(sc, ec, sw, se, ew, ee) ==
    IF se # None
    THEN [response |-> ErrorView(<<"For city ", sc, ": ", se[1]>>),
          evaluated |-> <<>>]
    ELSE IF ee # None
    THEN [response |-> ErrorView(<<"For city ", ec, ": ", ee[1]>>),
          evaluated |-> <<>>]
    ELSE [response |-> ResultView(sw[1], ew[1],
                                  check_bad_weather(sw[1]), check_bad_weather(ew[1])),
          evaluated |-> <<"start", "end">>]

Call(endpoint, result) == [city |-> who, endpoint |-> endpoint, result |-> result]

\* The running get_weather has returned `result` (a (weather, error) pair)
\* or raised; the handler runs on to its next outbound call or to its end.
GetWeatherEnds(result) ==
    /\ location_key' = None
    /\ current_weather' = None
    /\ IF result.tag = "raise"
       THEN /\ response' = Unhandled(result.exc)
            /\ pc' = "done"
            /\ UNCHANGED <<who, start_weather, start_error, end_weather,
                           end_error, evaluated>>
       ELSE IF who = "start"
       THEN /\ start_weather' = result.value[1]
            /\ start_error' = result.value[2]
            /\ who' = "end"
            /\ pc' = "search"
            /\ UNCHANGED <<end_weather, end_error, evaluated, response>>
       ELSE /\ end_weather' = result.value[1]
            /\ end_error' = result.value[2]
            /\ LET out == check_weather_respond(start_city, end_city,
                              start_weather, start_error,
                              result.value[1], result.value[2])
               IN  /\ response' = out.response
                   /\ evaluated' = out.evaluated
            /\ pc' = "done"
            /\ UNCHANGED <<who, start_weather, start_error>>

\* POST /check_weather, lines 153-161 up to the first outbound call
PostCheckWeather ==
    /\ pc = "idle"
    /\ form' \in Forms
    /\ start_city' = strip(FormGet(form', "start_city", <<>>))
    /\ end_city' = strip(FormGet(form', "end_city", <<>>))
    /\ IF start_city' = <<>> \/ end_city' = <<>>
       THEN /\ response' = ErrorView(<<CITY_NOT_ENTERED>>)
            /\ pc' = "done"
       ELSE /\ pc' = "search"
            /\ UNCHANGED response
    /\ UNCHANGED <<who, jsonErrorIsRequestException, location_key,
                   current_weather, start_weather, start_error, end_weather,
                   end_error, calls, evaluated, weather, conditions>>

\* get_weather lines 97-99: the search call comes back
LocationResponse ==
    /\ pc = "search"
    /\ \E resp \in SearchResponses :
        LET r == get_location_key(resp) IN
        /\ calls' = Append(calls, Call("search", r))
        /\ IF r.tag = "raise" THEN GetWeatherEnds(r)
           ELSE IF NoLocationKey(r.value)
           THEN GetWeatherEnds(Return(<<None, Some(CITY_NOT_FOUND)>>))
           ELSE /\ location_key' = r.value
                /\ pc' = "currentconditions"
                /\ UNCHANGED <<who, current_weather, start_weather, start_error,
                               end_weather, end_error, evaluated, response>>
    /\ UNCHANGED <<jsonErrorIsRequestException, form, start_city, end_city,
                   weather, conditions>>

\* get_weather lines 101-103: the current-conditions call comes back
CurrentConditionsResponse ==
    /\ pc = "currentconditions"
    /\ \E resp \in ConditionsResponses :
        LET r == get_current_weather(resp) IN
        /\ calls' = Append(calls, Call("currentconditions", r))
        /\ IF r.tag = "raise" THEN GetWeatherEnds(r)
           ELSE IF NoCurrentWeather(r.value)
           THEN GetWeatherEnds(Return(<<None, Some(WEATHER_UNAVAILABLE)>>))
           ELSE /\ current_weather' = r.value
                /\ pc' = "hourly"
                /\ UNCHANGED <<who, location_key, start_weather, start_error,
                               end_weather, end_error, evaluated, response>>
    /\ UNCHANGED <<jsonErrorIsRequestException, form, start_city, end_city,
                   weather, conditions>>

\* get_weather lines 105-120: the hourly-forecast call comes back
ForecastResponse ==
    /\ pc = "hourly"
    /\ \E resp \in ForecastResponses :
        LET r == get_precipitation_probability(resp) IN
        /\ calls' = Append(calls, Call("hourly", r))
        /\ IF r.tag = "raise" THEN GetWeatherEnds(r)
           ELSE GetWeatherEnds(
                    build_weather(IF who = "start" THEN start_city ELSE end_city,
                                  current_weather[1],
                                  precipitation_or_default(r.value)))
    /\ UNCHANGED <<jsonErrorIsRequestException, form, start_city, end_city,
                   weather, conditions>>

\* the next request starts with fresh locals; nothing is kept across requests
NewRequest ==
    /\ pc = "done"
    /\ pc' = "idle"
    /\ who' = "start"
    /\ form' = NoForm
    /\ start_city' = <<>> /\ end_city' = <<>>
    /\ location_key' = None /\ current_weather' = None
    /\ start_weather' = None /\ start_error' = None
    /\ end_weather' = None /\ end_error' = None
    /\ calls' = <<>> /\ evaluated' = <<>>
    /\ response' = NoResponse
    /\ UNCHANGED <<jsonErrorIsRequestException, weather, conditions>>

NoRecord ==
    [city |-> <<>>, temperature |-> 0, humidity |-> 0, wind_speed |-> 0,
     has_precipitation |-> FALSE, precipitation_probability |-> 0,
     weather_text |-> ""]

Init ==
    /\ pc = "idle"
    /\ who = "start"
    /\ jsonErrorIsRequestException \in BOOLEAN
    /\ form = NoForm
    /\ start_city = <<>> /\ end_city = <<>>
    /\ location_key = None /\ current_weather = None
    /\ start_weather = None /\ start_error = None
    /\ end_weather = None /\ end_error = None
    /\ calls = <<>> /\ evaluated = <<>>
    /\ response = NoResponse
    /\ weather = NoRecord /\ conditions = None

Next ==
    \/ PostCheckWeather
    \/ LocationResponse
    \/ CurrentConditionsResponse
    \/ ForecastResponse
    \/ NewRequest

Spec == Init /\ [][Next]_vars

-----------------------------------------------------------------------------
(* check_bad_weather on its own, over records around the thresholds *)

Around(threshold) == (threshold - EvalMargin)..(threshold + EvalMargin)

EvalRecords ==
    [city : {<<"a">>},
     temperature : (0 - EvalMargin)..(35 + EvalMargin),
     humidity : {55},
     wind_speed : Around(50),
     has_precipitation : {FALSE},
     precipitation_probability : Around(70),
     weather_text : {"Clear"}]

InitEval ==
    /\ pc = "eval"
    /\ who = "start"
    /\ jsonErrorIsRequestException = TRUE
    /\ form = NoForm
    /\ start_city = <<>> /\ end_city = <<>>
    /\ location_key = None /\ current_weather = None
    /\ start_weather = None /\ start_error = None
    /\ end_weather = None /\ end_error = None
    /\ calls = <<>> /\ evaluated = <<>>
    /\ response = NoResponse
    /\ weather \in EvalRecords
    /\ conditions = None

Evaluate ==
    /\ pc = "eval"
    /\ conditions' = check_bad_weather(weather)
    /\ pc' = "evaluated"
    /\ UNCHANGED <<who, jsonErrorIsRequestException, form, start_city, end_city,
                   location_key, current_weather, start_weather, start_error,
                   end_weather, end_error, calls, evaluated, response, weather>>

SpecEval == InitEval /\ [][Evaluate]_vars

-----------------------------------------------------------------------------
(* Vocabulary of the properties *)

Cities == {"start", "end"}

HasCall(c, endpoint) ==
    \E i \in 1..Len(calls) : calls[i].city = c /\ calls[i].endpoint = endpoint

ResultOf(c, endpoint) ==
    calls[CHOOSE i \in 1..Len(calls) :
            calls[i].city = c /\ calls[i].endpoint = endpoint].result

\* the fetch function returned None
Absent(result) == result.tag = "return" /\ result.value = None

\* the fetch function returned something other than None
Value(result) == result.tag = "return" /\ result.value # None

WeatherOf(c) == IF c = "start" THEN start_weather ELSE end_weather
ErrorOf(c) == IF c = "start" THEN start_error ELSE end_error
NameOf(c) == IF c = "start" THEN start_city ELSE end_city

\* get_weather(c) has been called and is no longer running
Running(c) == who = c /\ pc \in {"search", "currentconditions", "hourly"}
Ended(c) == HasCall(c, "search") /\ ~Running(c)

BothEntered == start_city # <<>> /\ end_city # <<>>

\* the form field is missing, empty or only spaces
Blank(f, field) ==
    field \notin DOMAIN f \/ \A i \in 1..Len(f[field]) : f[field][i] = " "

Tagged(c) == ErrorView(<<"For city ", NameOf(c), ": ", ErrorOf(c)[1]>>)

-----------------------------------------------------------------------------
(* Properties *)

\* C1: a record with 0 <= temperature <= 35, wind_speed <= 50 and
\* precipitation_probability <= 70 (the boundary values included) makes
\* check_bad_weather return None; any other record makes it return a
\* non-empty list.
C1_ThresholdsDecideAbsence ==
    pc = "evaluated" =>
        LET acceptable == /\ weather.temperature >= 0
                          /\ weather.temperature <= 35
                          /\ weather.wind_speed <= 50
                          /\ weather.precipitation_probability <= 70
        IN  /\ acceptable => conditions = None
            /\ ~acceptable => conditions # None /\ Len(conditions[1]) >= 1

C1_Witness ==
    /\ pc = "evaluated"
    /\ weather.temperature = 35
    /\ weather.wind_speed = 50
    /\ weather.precipitation_probability = 70
    /\ conditions = None

\* C2: a returned list holds exactly one entry for each violated threshold,
\* none for a threshold that is not violated, each entry carrying the value
\* of its field, in the order temperature, wind speed, precipitation
\* probability.
C2_OneEntryPerViolationInOrder ==
    (pc = "evaluated" /\ conditions # None) =>
        LET list == conditions[1]
            Rank(e) == CASE e[1] = "temperature: " -> 1
                         [] e[1] = "wind speed: " -> 2
                         [] e[1] = "precipitation probability: " -> 3
                         [] OTHER -> 0
            Count(k) == Cardinality({i \in 1..Len(list) : Rank(list[i]) = k})
            FieldOf(k) == CASE k = 1 -> weather.temperature
                            [] k = 2 -> weather.wind_speed
                            [] k = 3 -> weather.precipitation_probability
        IN  /\ \A i \in 1..Len(list) :
                  /\ Rank(list[i]) \in 1..3
                  /\ list[i][2] = FieldOf(Rank(list[i]))
            /\ Count(1) = IF weather.temperature < 0 \/ weather.temperature > 35
                          THEN 1 ELSE 0
            /\ Count(2) = IF weather.wind_speed > 50 THEN 1 ELSE 0
            /\ Count(3) = IF weather.precipitation_probability > 70 THEN 1 ELSE 0
            /\ \A i, j \in 1..Len(list) : i < j => Rank(list[i]) < Rank(list[j])

C2_Witness ==
    /\ pc = "evaluated"
    /\ weather.temperature = 40
    /\ weather.wind_speed = 51
    /\ weather.precipitation_probability = 71
    /\ conditions # None
    /\ Len(conditions[1]) = 3

\* C3: a POST whose start_city or end_city is missing, empty or only
\* whitespace ends in the "city name not entered" error view with no
\* outbound call made for either city, whatever the other field holds.
C3_BlankCityMakesNoCall ==
    (pc # "idle" /\ pc # "eval" /\ pc # "evaluated"
        /\ (Blank(form, "start_city") \/ Blank(form, "end_city"))) =>
        /\ pc = "done"
        /\ response = ErrorView(<<CITY_NOT_ENTERED>>)
        /\ calls = <<>>

C3_Witness ==
    /\ pc = "done"
    /\ DOMAIN form = FormFields
    /\ form["start_city"] = <<"a">>
    /\ form["end_city"] = <<" ">>
    /\ response = ErrorView(<<CITY_NOT_ENTERED>>)
    /\ calls = <<>>

\* C4: with both names entered, a failed start aggregation makes the handler
\* present the start city's error tagged with the start city's name whether
\* the end aggregation succeeded or failed, the end city's pipeline having
\* run before that and the evaluator not being invoked; the end city's
\* tagged error is presented only when the start aggregation succeeded and
\* the end one failed.
C4_StartErrorTakesPrecedence ==
    (pc = "done" /\ BothEntered) =>
        /\ start_error # None =>
              /\ response = Tagged("start")
              /\ HasCall("end", "search")
              /\ evaluated = <<>>
        /\ (start_error = None /\ end_error # None) => response = Tagged("end")
        /\ response.template = "error.html" =>
              start_error # None \/ end_error # None

\* C5: when the search call yields None, get_weather returns (None, city not
\* found) and neither of the other two endpoints is called for that city;
\* when the current-conditions call yields None, it returns (None, current
\* weather unavailable) and the forecast endpoint is not called; in both
\* cases no record exists for the city and the evaluator is not invoked on it.
C5_ShortCircuit ==
    \A c \in Cities :
        /\ (HasCall(c, "search") /\ Absent(ResultOf(c, "search"))) =>
              /\ ~HasCall(c, "currentconditions")
              /\ ~HasCall(c, "hourly")
              /\ WeatherOf(c) = None
              /\ ErrorOf(c) = Some(CITY_NOT_FOUND)
              /\ \A i \in 1..Len(evaluated) : evaluated[i] # c
        /\ (HasCall(c, "currentconditions")
                /\ Absent(ResultOf(c, "currentconditions"))) =>
              /\ ~HasCall(c, "hourly")
              /\ WeatherOf(c) = None
              /\ ErrorOf(c) = Some(WEATHER_UNAVAILABLE)
              /\ \A i \in 1..Len(evaluated) : evaluated[i] # c

C5_Witness ==
    /\ pc = "done"
    /\ HasCall("start", "currentconditions")
    /\ Absent(ResultOf("start", "currentconditions"))
    /\ HasCall("end", "search")
    /\ Absent(ResultOf("end", "search"))
    /\ response = Tagged("start")

\* C6: when the search and current-conditions calls succeed and the forecast
\* call yields None, get_weather returns a record with
\* precipitation_probability 0 and no error; a probability the provider
\* returned, 0 included, is stored as returned.
C6_PrecipitationFallback ==
    \A c \in Cities :
        HasCall(c, "hourly") =>
            LET p == ResultOf(c, "hourly") IN
            /\ Absent(p) =>
                  /\ WeatherOf(c) # None
                  /\ WeatherOf(c)[1].precipitation_probability = 0
                  /\ ErrorOf(c) = None
            /\ Value(p) =>
                  /\ WeatherOf(c) # None
                  /\ WeatherOf(c)[1].precipitation_probability = p.value[1]
                  /\ ErrorOf(c) = None

\* C7: whatever an outbound call comes to, get_location_key,
\* get_current_weather and get_precipitation_probability return a value or
\* None; no exception leaves them.
C7_FetchersNeverRaise ==
    \A i \in 1..Len(calls) : calls[i].result.tag = "return"

\* C8: when the current-conditions record lacks a required field,
\* get_weather returns (None, error reason) and nothing else.
C8_IncompleteRecordIsAnError ==
    \A c \in Cities :
        (/\ Ended(c)
         /\ HasCall(c, "currentconditions")
         /\ Value(ResultOf(c, "currentconditions"))
         /\ ConditionFields \ DOMAIN ResultOf(c, "currentconditions").value[1] # {}) =>
            /\ WeatherOf(c) = None
            /\ ErrorOf(c) # None

\* C9: every POST ends in an error view carrying one message and no record
\* or violation list, or in a result view carrying both records and both
\* violation lists, the latter only when both aggregations succeeded; the
\* message of a failed aggregation names that city.
C9_ErrorViewOrResultView ==
    pc = "done" =>
        \/ /\ response.template = "error.html"
           /\ DOMAIN response = {"template", "error_message"}
           /\ \/ response.error_message = <<CITY_NOT_ENTERED>>
              \/ \E c \in Cities :
                    /\ ErrorOf(c) # None
                    /\ NameOf(c) # <<>>
                    /\ response = Tagged(c)
        \/ /\ response.template = "result.html"
           /\ start_error = None /\ end_error = None
           /\ start_weather # None /\ end_weather # None
           /\ response.start_weather = start_weather[1]
           /\ response.end_weather = end_weather[1]
           /\ DOMAIN response = {"template", "start_weather", "end_weather",
                                 "start_conditions", "end_conditions"}

\* the six outbound calls of a request in the order the code issues them
CallOrder ==
    <<<<"start", "search">>, <<"start", "currentconditions">>,
      <<"start", "hourly">>, <<"end", "search">>,
      <<"end", "currentconditions">>, <<"end", "hourly">>>>

Position(call) ==
    CHOOSE k \in 1..Len(CallOrder) : CallOrder[k] = <<call.city, call.endpoint>>

\* calls are issued in CallOrder, each at most once, the end city's only
\* after get_weather(start_city) returned, and the two data calls of a city
\* only after its search returned a key
SequentialCalls ==
    /\ \A i, j \in 1..Len(calls) :
          i < j => Position(calls[i]) < Position(calls[j])
    /\ Len(calls) <= Len(CallOrder)
    /\ (\E i \in 1..Len(calls) : calls[i].city = "end") => who = "end"
    /\ \A c \in Cities :
          (HasCall(c, "currentconditions") \/ HasCall(c, "hourly")) =>
              HasCall(c, "search") /\ Value(ResultOf(c, "search"))

\* C10: within a request with both names entered the calls are issued one at
\* a time in the order search, current conditions, forecast for the start
\* city and then for the end city, each at most once, and the end city's
\* pipeline is started whatever became of the start city's.
C10_SequentialAndEndAlwaysStarted ==
    /\ SequentialCalls
    /\ (pc = "done" /\ BothEntered) => HasCall("end", "search")

====
